---- MODULE Spec2Model ----
(***************************************************************************)
(* State-machine model of the HTTP load tester (src/unnamed/part_000):     *)
(* main's flag validation, getURLs/readLines, runSequential, runLoadTest   *)
(* with its worker goroutines, two buffered channels and WaitGroup, and    *)
(* analyzeDurations; and of the variant src/unnamed/part_001 (SpecP1): a   *)
(* sequential phase of n - c requests followed by c goroutines that share  *)
(* the metrics slice and the two counters without synchronisation.         *)
(***************************************************************************)
EXTENDS Integers, Sequences, FiniteSets, Bags, TLC

\* ------------------------------------------------------------------ bounds
\* Largest value of the -n flag that is explored (the -c flag goes one higher,
\* so that concurrency > numRequests happens).
MaxN == 2
\* Largest number of lines of the -f file.
MaxLines == 2

\* ------------------------------------------------------- program constants
\* main: "if numRequests <= 10 && concurrency == 1" picks runSequential.
SeqMaxRequests == 10
\* First and one-past-last status code counted as a success in runLoadTest.
StatusOkLow == 200
StatusOkHigh == 300
\* time.Duration.Microseconds(): nanoseconds per microsecond.
NanosPerMicro == 1000

\* ---------------------------------------------------------- input domains
NFlagValues == -1 .. MaxN
CFlagValues == -1 .. (MaxN + 1)
\* Status codes a server may answer with (both edges of [200,300)).
StatusCodes == {200, 300}
\* Durations a request may take, in nanoseconds (time.Duration).
Durations == {500, 1500}

RECURSIVE FileLines(_)
\* The lines "f1", "f2", ... of a readable file with k lines.
FileLines(k) == IF k = 0 THEN << >> ELSE Append(FileLines(k - 1), "f" \o ToString(k))

\* os.Open fails: the path names no readable file.
NoFile == [openErr |-> TRUE, lines |-> << >>, scanErr |-> FALSE]

\* What the path given with -f holds: os.Open fails, or the scanner reads
\* the lines (an empty file has none) and may fail after them.
Files ==
    {NoFile}
    \cup {[openErr |-> FALSE, lines |-> FileLines(k), scanErr |-> FALSE] : k \in 0 .. MaxLines}
    \cup {[openErr |-> FALSE, lines |-> FileLines(1), scanErr |-> TRUE]}

NoJob == [i |-> -1, url |-> ""]
NoResp == [status |-> 0, ttfb |-> 0]
NoReport == [printed |-> FALSE]

VARIABLES
    fileFlag,        \* -f
    urlFlag,         \* -u
    args,            \* flag.Args()
    numReqsFlag,     \* -n
    concurrencyFlag, \* -c
    file,            \* what the file named by -f holds
    pc,              \* where the main goroutine is
    urls,            \* the target list
    numRequests,     \* n after the Step-1 default
    concurrency,     \* c after the Step-1 default and the clamp
    i,               \* loop index of the main goroutine
    jobs,            \* buffer of the jobs channel
    jobsClosed,
    results,         \* buffer of the results channel
    resultsClosed,
    wg,              \* sync.WaitGroup counter
    started,         \* worker goroutines started so far
    wpc,             \* where each worker is
    wjob,            \* the job a worker holds
    wresp,           \* the response a worker holds
    successCount,
    failureCount,
    ttfbDurations,
    ttlbDurations,
    report,          \* the summary printed by runLoadTest
    output,          \* lines printed by runSequential
    hist,            \* history, per job: times claimed, target requested, results sent
    connErrs,        \* history: requests that ended with a connection error
    bodyErrs,        \* history: requests whose body could not be read
    received,        \* history: bag of the responses read to the end
    unread,          \* history: responses whose body was closed without being read
    metrics,         \* part_001: the shared metrics slice
    gpc,             \* part_001: where each goroutine of the concurrent phase is
    gloc,            \* part_001: the value a goroutine loaded from shared memory
    issued,          \* part_001 history: HTTP requests issued
    responses        \* part_001 history: requests that received a response

vars == <<fileFlag, urlFlag, args, numReqsFlag, concurrencyFlag, file, pc, urls,
          numRequests, concurrency, i, jobs, jobsClosed, results, resultsClosed,
          wg, started, wpc, wjob, wresp, successCount, failureCount,
          ttfbDurations, ttlbDurations, report, output, hist, connErrs, bodyErrs,
          received, unread, metrics, gpc, gloc, issued, responses>>

inputs == <<fileFlag, urlFlag, args, numReqsFlag, concurrencyFlag, file>>
config == <<urls, numRequests, concurrency>>
chans == <<jobs, jobsClosed, results, resultsClosed>>
workers == <<wg, started, wpc, wjob, wresp>>
history == <<hist, connErrs, bodyErrs, received>>
\* The state of the part_001 variant beyond what it shares with part_000.
variant1 == <<metrics, gpc, gloc, issued, responses>>
collector == <<successCount, failureCount, ttfbDurations, ttlbDurations, report>>

\* Goroutine slots: one more than the largest clamped concurrency.
Workers == 1 .. (MaxN + 1)

\* ------------------------------------------------------------- resolution
\* readLines: a slice of the file's lines, or an error.
readLines(f) ==
    IF f.openErr THEN [err |-> TRUE, urls |-> << >>]
    ELSE [err |-> f.scanErr, urls |-> f.lines]

\* Mutant of getURLs: -u is looked at before -f.
getURLsUrlFirst(ff, uf, as, f) ==
    IF uf # "" THEN [err |-> FALSE, urls |-> <<uf>>]
    ELSE IF ff # "" THEN readLines(f)
    ELSE IF Len(as) > 0 THEN [err |-> FALSE, urls |-> <<as[1]>>]
    ELSE [err |-> TRUE, urls |-> << >>]

\* getURLs: -f, else -u, else the first positional argument, else an error.
getURLs(ff, uf, as, f) ==
    IF ff # "" THEN readLines(f)
    ELSE IF uf # "" THEN [err |-> FALSE, urls |-> <<uf>>]
    ELSE IF Len(as) > 0 THEN [err |-> FALSE, urls |-> <<as[1]>>]
    ELSE [err |-> TRUE, urls |-> << >>]

\* main: "isStep1Case".
isStep1Case == numReqsFlag = 0 /\ concurrencyFlag = 0 /\ Len(args) > 0

\* main: the request count after the Step-1 default.
EffectiveN == IF isStep1Case THEN 1 ELSE numReqsFlag

\* main: the concurrency after the Step-1 default, before the clamp.
EffectiveC == IF isStep1Case THEN 1 ELSE concurrencyFlag

\* Mutant of Clamp: the clamp is left out.
ClampNone(c, n) == c

\* main: "if concurrency > numRequests { concurrency = numRequests }".
Clamp(c, n) == IF c > n THEN n ELSE c

\* Mutant of ValidCount: "< 0" for "<= 0", so that 0 passes.
ValidCountNonNegative(k) == k >= 0

\* main: "numRequests <= 0" and "concurrency <= 0" are fatal.
ValidCount(k) == k > 0

\* Mutant of IsSequential: the comparison of numRequests is turned around.
IsSequentialFlipped(n, c) == n > SeqMaxRequests /\ c = 1

\* main: the low-concurrency path is taken.
IsSequential(n, c) == n <= SeqMaxRequests /\ c = 1

\* Goroutines of part_001's concurrent phase: "for i := 0; i < *c; i++".
Goroutines == 1 .. (MaxN + 1)

\* What a goroutine of part_001 holds in its own registers: the status of
\* its response, and the slice and the counter it has loaded from the shared
\* variables.
NoLocal == [status |-> 0, slice |-> << >>, count |-> 0]

\* The variables only the part_001 variant uses, at their initial values.
InitVariant1 ==
    /\ metrics = << >>
    /\ gpc = [g \in Goroutines |-> "idle"]
    /\ gloc = [g \in Goroutines |-> NoLocal]
    /\ issued = 0
    /\ responses = 0

\* A fresh history for n jobs.
NewHist(n) ==
    [j \in 0 .. (n - 1) |-> [claimed |-> 0, url |-> "", sent |-> 0]]

Init ==
    /\ fileFlag \in {"", "urls.txt"}
    /\ urlFlag \in {"", "u"}
    /\ args \in {<< >>, <<"a">>}
    /\ numReqsFlag \in NFlagValues
    /\ concurrencyFlag \in CFlagValues
    /\ file \in (IF fileFlag = "" THEN {NoFile} ELSE Files)
    /\ pc = "main"
    /\ urls = << >>
    /\ numRequests = 0
    /\ concurrency = 0
    /\ i = 0
    /\ jobs = << >>
    /\ jobsClosed = FALSE
    /\ results = << >>
    /\ resultsClosed = FALSE
    /\ wg = 0
    /\ started = 0
    /\ wpc = [w \in Workers |-> "idle"]
    /\ wjob = [w \in Workers |-> NoJob]
    /\ wresp = [w \in Workers |-> NoResp]
    /\ successCount = 0
    /\ failureCount = 0
    /\ ttfbDurations = << >>
    /\ ttlbDurations = << >>
    /\ report = NoReport
    /\ output = << >>
    /\ hist = << >>
    /\ connErrs = 0
    /\ bodyErrs = 0
    /\ received = EmptyBag
    /\ unread = 0
    /\ InitVariant1

\* main, lines 22-68: parse, resolve, validate, clamp and pick the path.
\* log.Fatal leaves the process with exit code 1. Once the target list is
\* resolved and the Step-1 case decided, -f, -u, the positional arguments and
\* the file are read no more: they are dead from here on and are cleared.
Main ==
    /\ pc = "main"
    /\ LET r == getURLs(fileFlag, urlFlag, args, file)
           n == EffectiveN
           c == EffectiveC
       IN IF r.err \/ ~ValidCount(n) \/ ~ValidCount(c)
          THEN /\ pc' = "exit1"
               /\ UNCHANGED <<inputs, config, hist>>
          ELSE /\ urls' = r.urls
               /\ numRequests' = n
               /\ concurrency' = Clamp(c, n)
               /\ hist' = NewHist(n)
               /\ pc' = IF IsSequential(n, Clamp(c, n)) THEN "seq" ELSE "spawn"
               /\ fileFlag' = ""
               /\ urlFlag' = ""
               /\ args' = << >>
               /\ file' = NoFile
               /\ UNCHANGED <<numReqsFlag, concurrencyFlag>>
    /\ UNCHANGED <<i, chans, workers, collector, output, connErrs, bodyErrs, received,
                   unread, variant1>>

\* ------------------------------------------------------------ shared code
\* Mutant of JobURL: the index is not cycled, every job gets the first target.
JobURLFirst(us, j) == us[1]

\* "urls[i%len(urls)]": the target of job j (Go slices are 0-based).
JobURL(us, j) == us[(j % Len(us)) + 1]

\* Mutant of IsSuccess: "<= 300" for "< 300".
IsSuccessInclusive(status) == status >= StatusOkLow /\ status <= StatusOkHigh

\* runLoadTest: "m.statusCode >= 200 && m.statusCode < 300".
IsSuccess(status) == status >= StatusOkLow /\ status < StatusOkHigh

\* "results <- nil" and "results <- &Metric{...}".
NilResult == [nil |-> TRUE, timeToFirstByte |-> 0, timeToLastByte |-> 0, statusCode |-> 0]
Metric(ttfb, ttlb, status) ==
    [nil |-> FALSE, timeToFirstByte |-> ttfb, timeToLastByte |-> ttlb, statusCode |-> status]

\* Mutant of BodyErrResult: the partial measurement is reported, with the
\* time to first byte standing in for the time to last byte.
BodyErrResultPartial(resp) == Metric(resp.ttfb, resp.ttfb, resp.status)

\* Lines 180-184: what the worker sends when io.ReadAll failed: nil, the
\* measured ttfb is dropped.
BodyErrResult(resp) == NilResult

\* A receive takes the value at the head of the buffer out of it.
Dequeue(q) == Tail(q)

\* Mutant of JobCount: the feeding loop stops one job short.
JobCountShort == numRequests - 1

\* "for i := range n": the number of jobs the feeding loop hands out.
JobCount == numRequests

\* "make(chan string, n)" and "make(chan *Metric, n)": the buffers' capacity.
ChanCap == numRequests

\* --------------------------------------------------------- runSequential
\* Lines 73-75: the next iteration computes the target and issues the GET;
\* an empty target list makes i%len(urls) a division by zero (panic).
SeqIssue ==
    /\ pc = "seq"
    /\ i < numRequests
    /\ IF Len(urls) = 0
       THEN /\ pc' = "panic"
            /\ UNCHANGED hist
       ELSE /\ pc' = "seqget"
            /\ hist' = [hist EXCEPT ![i].claimed = @ + 1, ![i].url = JobURL(urls, i)]
    /\ UNCHANGED <<inputs, unread, variant1, config, i, chans, workers, collector, output, connErrs,
                   bodyErrs, received>>

\* Mutant of SeqAfterError: "return" for "continue".
SeqAfterErrorReturn == "done"

\* Line 78: where runSequential goes after a failed request: "continue".
SeqAfterError == "seq"

\* Lines 76-79: client.Get failed; the error is printed and the loop continues.
SeqGetErr ==
    /\ pc = "seqget"
    /\ output' = Append(output, [kind |-> "error", code |-> 0])
    /\ connErrs' = connErrs + 1
    /\ i' = i + 1
    /\ pc' = SeqAfterError
    /\ UNCHANGED <<inputs, unread, variant1, config, chans, workers, collector, hist, bodyErrs, received>>

\* Lines 80-81: the status code is printed and the body closed, unread.
SeqGetOk ==
    /\ pc = "seqget"
    /\ \E status \in StatusCodes :
        output' = Append(output, [kind |-> "code", code |-> status])
    /\ unread' = unread + 1
    /\ i' = i + 1
    /\ pc' = "seq"
    /\ UNCHANGED <<inputs, variant1, config, chans, workers, collector, history>>

\* Line 83: the loop is over; runSequential and main return.
SeqReturn ==
    /\ pc = "seq"
    /\ i = numRequests
    /\ pc' = "done"
    /\ UNCHANGED <<inputs, unread, variant1, config, i, chans, workers, collector, output, history>>

\* ----------------------------------------------------------- runLoadTest
\* Lines 102-105: "wg.Add(1); go worker(...)", c times.
Spawn ==
    /\ pc = "spawn"
    /\ started < concurrency
    /\ wg' = wg + 1
    /\ started' = started + 1
    /\ wpc' = [wpc EXCEPT ![started + 1] = "recv"]
    /\ pc' = IF started + 1 = concurrency THEN "feed" ELSE "spawn"
    /\ UNCHANGED <<inputs, unread, variant1, config, i, chans, wjob, wresp, collector, output, history>>

\* Lines 110-112: "jobs <- urls[i%len(urls)]"; blocks while the buffer is full.
Feed ==
    /\ pc = "feed"
    /\ i < JobCount
    /\ IF Len(urls) = 0
       THEN /\ pc' = "panic"
            /\ UNCHANGED <<i, jobs>>
       ELSE /\ Len(jobs) < ChanCap
            /\ jobs' = Append(jobs, [i |-> i, url |-> JobURL(urls, i)])
            /\ i' = i + 1
            /\ pc' = "feed"
    /\ UNCHANGED <<inputs, unread, variant1, config, jobsClosed, results, resultsClosed, workers,
                   collector, output, history>>

\* Line 113: close(jobs).
CloseJobs ==
    /\ pc = "feed"
    /\ i = JobCount
    /\ jobsClosed' = TRUE
    /\ pc' = "wait"
    /\ UNCHANGED <<inputs, unread, variant1, config, i, jobs, results, resultsClosed, workers,
                   collector, output, history>>

\* Mutant of WaitDone: the wait for the workers is left out.
WaitDoneNoBarrier == TRUE

\* wg.Wait() returns when the counter is zero.
WaitDone == wg = 0

\* Line 116: wg.Wait().
Wait ==
    /\ pc = "wait"
    /\ WaitDone
    /\ pc' = "closeResults"
    /\ UNCHANGED <<inputs, unread, variant1, config, i, chans, workers, collector, output, history>>

\* Line 117: close(results).
CloseResults ==
    /\ pc = "closeResults"
    /\ resultsClosed' = TRUE
    /\ pc' = "collect"
    /\ UNCHANGED <<inputs, unread, variant1, config, i, jobs, jobsClosed, results, workers,
                   collector, output, history>>

\* Lines 128-141: what one result adds to successCount.
SuccessDelta(m) == IF ~m.nil /\ IsSuccess(m.statusCode) THEN 1 ELSE 0

\* Mutant of FailureDelta: a nil result is not counted.
FailureDeltaSkipNil(m) == IF ~m.nil /\ ~IsSuccess(m.statusCode) THEN 1 ELSE 0

\* Lines 128-141: what one result adds to failureCount.
FailureDelta(m) == IF m.nil \/ ~IsSuccess(m.statusCode) THEN 1 ELSE 0

\* Lines 127-142: one iteration of "for m := range results".
Collect ==
    /\ pc = "collect"
    /\ Len(results) > 0
    /\ LET m == Head(results)
       IN /\ results' = Dequeue(results)
          /\ successCount' = successCount + SuccessDelta(m)
          /\ failureCount' = failureCount + FailureDelta(m)
          /\ ttfbDurations' = IF m.nil THEN ttfbDurations
                              ELSE Append(ttfbDurations, m.timeToFirstByte)
          /\ ttlbDurations' = IF m.nil THEN ttlbDurations
                              ELSE Append(ttlbDurations, m.timeToLastByte)
    /\ UNCHANGED <<inputs, unread, variant1, config, pc, i, jobs, jobsClosed, resultsClosed, workers,
                   report, output, history>>

\* Mutant of SeqMin: the first sample is taken for the smallest, which makes
\* the result depend on the order of arrival.
SeqMinFirst(s) == s[1]

RECURSIVE SeqMin(_), SeqMax(_), SeqSum(_)
SeqMin(s) == IF Len(s) = 1 THEN s[1]
             ELSE LET m == SeqMin(Tail(s)) IN IF s[1] < m THEN s[1] ELSE m
SeqMax(s) == IF Len(s) = 1 THEN s[1]
             ELSE LET m == SeqMax(Tail(s)) IN IF s[1] > m THEN s[1] ELSE m
SeqSum(s) == IF Len(s) = 0 THEN 0 ELSE s[1] + SeqSum(Tail(s))

\* time.Duration.Microseconds(): integer division of the nanoseconds.
Microseconds(d) == d \div NanosPerMicro

\* Mutant of analyzeDurations: the empty case is not set apart, the mean of
\* no samples is 0 / 0.
analyzeDurationsNoEmptyCase(durations) ==
    IF Len(durations) = 0
    THEN [minUs |-> 0, maxUs |-> 0, meanUs |-> 0, count |-> 0]
    ELSE [minUs |-> Microseconds(SeqMin(durations)),
          maxUs |-> Microseconds(SeqMax(durations)),
          meanUs |-> Microseconds(SeqSum(durations)),
          count |-> Len(durations)]

\* analyzeDurations: min and max in microseconds (the code divides them by
\* 1000.0 to get ms), and the mean as the fraction meanUs / count: the code
\* computes (float64(totalVal.Microseconds()) / 1000.0) / float64(len). For
\* no samples it returns 0, 0, 0 before any division: the fraction 0 / 1.
analyzeDurations(durations) ==
    IF Len(durations) = 0
    THEN [minUs |-> 0, maxUs |-> 0, meanUs |-> 0, count |-> 1]
    ELSE [minUs |-> Microseconds(SeqMin(durations)),
          maxUs |-> Microseconds(SeqMax(durations)),
          meanUs |-> Microseconds(SeqSum(durations)),
          count |-> Len(durations)]

\* Lines 142-156: the range loop ends (results closed and drained); the
\* statistics are computed and the report printed; runLoadTest returns.
Analyze ==
    /\ pc = "collect"
    /\ Len(results) = 0
    /\ resultsClosed
    /\ report' = [printed |-> TRUE,
                  successCount |-> successCount,
                  failureCount |-> failureCount,
                  ttfb |-> analyzeDurations(ttfbDurations),
                  ttlb |-> analyzeDurations(ttlbDurations)]
    /\ pc' = "done"
    /\ UNCHANGED <<inputs, unread, variant1, config, i, chans, workers, successCount, failureCount,
                   ttfbDurations, ttlbDurations, output, history>>

\* ----------------------------------------------------------------- worker
\* The process is running (no log.Fatal, no panic, main has not returned).
Alive == pc \notin {"main", "exit1", "panic", "done"}

\* Where a worker goes after it reported a failed request: "continue".
AfterFailure == "recv"

\* A send on the results channel by worker w, which then goes to wpc "next":
\* blocks while the buffer is full, panics when the channel is closed.
Send(w, v, next) ==
    IF resultsClosed
    THEN /\ pc' = "panic"
         /\ UNCHANGED <<results, wpc>>
    ELSE /\ Len(results) < ChanCap
         /\ results' = Append(results, v)
         /\ wpc' = [wpc EXCEPT ![w] = next]
         /\ UNCHANGED pc

\* Line 163: "for url := range jobs" receives the next job.
WorkerRecv(w) ==
    /\ Alive
    /\ wpc[w] = "recv"
    /\ Len(jobs) > 0
    /\ wjob' = [wjob EXCEPT ![w] = Head(jobs)]
    /\ jobs' = Dequeue(jobs)
    /\ wpc' = [wpc EXCEPT ![w] = "get"]
    /\ hist' = [hist EXCEPT ![Head(jobs).i].claimed = @ + 1,
                            ![Head(jobs).i].url = Head(jobs).url]
    /\ UNCHANGED <<inputs, unread, variant1, config, pc, i, jobsClosed, results, resultsClosed, wg,
                   started, wresp, collector, output, connErrs, bodyErrs, received>>

\* Line 163: the jobs channel is closed and drained; the range loop ends.
WorkerLoopEnd(w) ==
    /\ Alive
    /\ wpc[w] = "recv"
    /\ Len(jobs) = 0
    /\ jobsClosed
    /\ wpc' = [wpc EXCEPT ![w] = "return"]
    /\ UNCHANGED <<inputs, unread, variant1, config, pc, i, chans, wg, started, wjob, wresp,
                   collector, output, history>>

\* Line 162: the deferred wg.Done() runs as the worker returns.
WorkerReturn(w) ==
    /\ Alive
    /\ wpc[w] = "return"
    /\ wg' = wg - 1
    /\ wpc' = [wpc EXCEPT ![w] = "done"]
    /\ UNCHANGED <<inputs, unread, variant1, config, pc, i, chans, started, wjob, wresp,
                   collector, output, history>>

\* Lines 165-170: client.Get failed; nil is sent and the loop continues.
WorkerGetErr(w) ==
    /\ Alive
    /\ wpc[w] = "get"
    /\ Send(w, NilResult, AfterFailure)
    /\ hist' = [hist EXCEPT ![wjob[w].i].sent = @ + 1]
    /\ connErrs' = connErrs + 1
    /\ UNCHANGED <<inputs, unread, variant1, config, i, jobs, jobsClosed, resultsClosed, wg, started,
                   wjob, wresp, collector, output, bodyErrs, received>>

\* Lines 165-171: client.Get returned a response; ttfb is measured.
WorkerGetOk(w) ==
    /\ Alive
    /\ wpc[w] = "get"
    /\ \E status \in StatusCodes, ttfb \in Durations :
        wresp' = [wresp EXCEPT ![w] = [status |-> status, ttfb |-> ttfb]]
    /\ wpc' = [wpc EXCEPT ![w] = "read"]
    /\ UNCHANGED <<inputs, unread, variant1, config, pc, i, chans, wg, started, wjob, collector,
                   output, history>>

\* Lines 175-184: io.ReadAll failed; the body is closed, nil is sent and the
\* loop continues.
WorkerReadErr(w) ==
    /\ Alive
    /\ wpc[w] = "read"
    /\ Send(w, BodyErrResult(wresp[w]), AfterFailure)
    /\ hist' = [hist EXCEPT ![wjob[w].i].sent = @ + 1]
    /\ bodyErrs' = bodyErrs + 1
    /\ wresp' = [wresp EXCEPT ![w] = NoResp]
    /\ UNCHANGED <<inputs, unread, variant1, config, i, jobs, jobsClosed, resultsClosed, wg, started,
                   wjob, collector, output, connErrs, received>>

\* Lines 175-190: the body was read to the end and closed; ttlb is measured
\* and the Metric is sent.
WorkerReadOk(w) ==
    /\ Alive
    /\ wpc[w] = "read"
    /\ \E ttlb \in Durations :
        /\ ttlb >= wresp[w].ttfb
        /\ Send(w, Metric(wresp[w].ttfb, ttlb, wresp[w].status), "recv")
        /\ received' = received (+) SetToBag({[status |-> wresp[w].status,
                                                ttfb |-> wresp[w].ttfb, ttlb |-> ttlb]})
    /\ hist' = [hist EXCEPT ![wjob[w].i].sent = @ + 1]
    /\ wresp' = [wresp EXCEPT ![w] = NoResp]
    /\ UNCHANGED <<inputs, unread, variant1, config, i, jobs, jobsClosed, resultsClosed, wg, started,
                   wjob, collector, output, connErrs, bodyErrs>>

Worker(w) ==
    \/ WorkerRecv(w)
    \/ WorkerLoopEnd(w)
    \/ WorkerReturn(w)
    \/ WorkerGetErr(w)
    \/ WorkerGetOk(w)
    \/ WorkerReadErr(w)
    \/ WorkerReadOk(w)

Next ==
    \/ Main
    \/ SeqIssue
    \/ SeqGetErr
    \/ SeqGetOk
    \/ SeqReturn
    \/ Spawn
    \/ Feed
    \/ CloseJobs
    \/ Wait
    \/ CloseResults
    \/ Collect
    \/ Analyze
    \/ \E w \in Workers : Worker(w)

Spec == Init /\ [][Next]_vars

\* ------------------------------------------------------- derived quantities
RECURSIVE SumOver(_, _)
\* The sum of f[x] over the x in S.
SumOver(f, S) ==
    IF S = {} THEN 0
    ELSE LET x == CHOOSE y \in S : TRUE IN f[x] + SumOver(f, S \ {x})

Jobs == DOMAIN hist
\* Request executions started so far (by workers or by runSequential).
TotalClaimed == SumOver([j \in Jobs |-> hist[j].claimed], Jobs)
\* Values put on the results channel so far.
TotalSent == SumOver([j \in Jobs |-> hist[j].sent], Jobs)
\* Responses read to the end so far whose status satisfies P.
ReceivedWhere(P(_)) ==
    SumOver([r \in BagToSet(received) |-> IF P(r) THEN CopiesIn(r, received) ELSE 0],
            BagToSet(received))
\* How often the value d occurs in the sequence q.
Occurrences(q, d) == Cardinality({p \in 1 .. Len(q) : q[p] = d})
\* Requests that hold a connection: issued and not yet answered or closed.
InFlight ==
    Cardinality({w \in Workers : wpc[w] \in {"get", "read"}})
    + (IF pc = "seqget" THEN 1 ELSE 0)
\* runLoadTest has been entered / has returned.
InLoadTest == pc \in {"spawn", "feed", "wait", "closeResults", "collect"}
LoadTestDone == pc = "done" /\ report.printed
\* runSequential has returned.
SequentialDone == pc = "done" /\ ~report.printed
Min(a, b) == IF a < b THEN a ELSE b

\* ------------------------------------------------------------------ claims

\* C1: in runLoadTest, whatever the outcomes and the interleaving, the
\* collection loop ends with successCount + failureCount = N; while it runs,
\* the results counted so far and those still buffered add up to N.
C1_ResultCount ==
    /\ pc = "collect" => successCount + failureCount + Len(results) = numRequests
    /\ LoadTestDone =>
        /\ successCount + failureCount = numRequests
        /\ report.successCount + report.failureCount = numRequests
        /\ numRequests >= 1

\* C1 witness: a finished load test with a success, a connection error among
\* its results.
C1_Witness ==
    LoadTestDone /\ successCount >= 1 /\ failureCount >= 1 /\ connErrs >= 1

\* C2: every job index is claimed by exactly one worker and puts exactly one
\* value on the results channel: never twice, no two workers hold the same
\* job, no result is lost between the channel and the collector, and once
\* wg.Wait has returned every job has been claimed and reported once.
C2_ExactlyOnce ==
    /\ \A j \in Jobs : hist[j].claimed <= 1 /\ hist[j].sent <= hist[j].claimed
    /\ \A w1, w2 \in Workers :
        (w1 # w2 /\ wpc[w1] \in {"get", "read"} /\ wpc[w2] \in {"get", "read"})
            => wjob[w1].i # wjob[w2].i
    /\ \A w \in Workers : wpc[w] \in {"get", "read"} =>
        (wjob[w].i \in Jobs /\ hist[wjob[w].i].claimed = 1 /\ hist[wjob[w].i].sent = 0)
    /\ (InLoadTest \/ LoadTestDone) =>
        Len(results) + successCount + failureCount = TotalSent
    /\ (pc \in {"closeResults", "collect"} \/ LoadTestDone) =>
        \A j \in Jobs : hist[j].claimed = 1 /\ hist[j].sent = 1

\* C2 witness: two workers hold two different jobs at the same time.
C2_Witness ==
    /\ wpc[1] \in {"get", "read"}
    /\ wpc[2] \in {"get", "read"}
    /\ wjob[1].i # wjob[2].i

\* C3: a failed request never aborts the run. When runSequential or
\* runLoadTest returns, each of the N jobs has been executed once, however
\* many of them failed; in runLoadTest every connection error and every
\* body-read error is one failure result, and in runSequential every
\* connection error is one printed error line among N printed lines.
C3_FailuresDoNotAbort ==
    /\ pc = "done" =>
        /\ TotalClaimed = numRequests
        /\ \A j \in Jobs : hist[j].claimed = 1
    /\ LoadTestDone =>
        /\ failureCount >= connErrs + bodyErrs
        /\ failureCount = connErrs + bodyErrs
                          + ReceivedWhere(LAMBDA r : ~(r.status >= 200 /\ r.status < 300))
        /\ connErrs + bodyErrs + ReceivedWhere(LAMBDA r : TRUE) = numRequests
    /\ SequentialDone =>
        /\ Len(output) = numRequests
        /\ Cardinality({p \in 1 .. Len(output) : output[p].kind = "error"}) = connErrs
    /\ \A w \in Workers : wpc[w] \in {"return", "done"} => (jobsClosed /\ Len(jobs) = 0)

\* C3 witness: a load test that finished although a connection error and a
\* body-read error happened.
C3_Witness == LoadTestDone /\ connErrs >= 1 /\ bodyErrs >= 1

\* C4: the results channel is closed only after all workers have returned
\* and all N results have been sent, no worker sends on the closed channel
\* (the only panic is the empty target list), and the summary is computed
\* from all N results.
C4_CloseAfterAll ==
    /\ (pc = "closeResults" \/ resultsClosed) =>
        /\ wg = 0
        /\ started = concurrency
        /\ \A w \in 1 .. started : wpc[w] = "done"
        /\ TotalSent = numRequests
    /\ resultsClosed => Len(results) + successCount + failureCount = numRequests
    /\ pc = "panic" => (Len(urls) = 0 /\ ~resultsClosed)
    /\ report.printed =>
        /\ resultsClosed
        /\ Len(results) = 0
        /\ Len(ttfbDurations) + connErrs + bodyErrs = numRequests
        /\ report.successCount + report.failureCount = numRequests

\* C4 witness: the channel is closed while all N results are still buffered.
C4_Witness == resultsClosed /\ Len(results) = numRequests /\ numRequests >= 2

\* C5: job i requests urls[i mod L], jobs are handed out in increasing i
\* order, and when the run is over target index k has been requested
\* floor(N/L) times, plus one exactly for k < N mod L; in runLoadTest and in
\* runSequential alike.
C5_RoundRobin ==
    /\ \A j \in Jobs : hist[j].claimed >= 1 =>
        /\ Len(urls) >= 1
        /\ hist[j].url = urls[(j % Len(urls)) + 1]
        /\ \A k \in Jobs : k < j => hist[k].claimed >= 1
    /\ \A w \in Workers : wpc[w] \in {"get", "read"} =>
        wjob[w].url = urls[(wjob[w].i % Len(urls)) + 1]
    /\ InLoadTest =>
        \A p \in 1 .. Len(jobs) : jobs[p].i = i - Len(jobs) + (p - 1)
    /\ pc = "done" =>
        \A k \in 0 .. (Len(urls) - 1) :
            Cardinality({j \in Jobs : /\ j % Len(urls) = k
                                      /\ hist[j].claimed = 1
                                      /\ hist[j].url = urls[k + 1]})
            = (numRequests \div Len(urls))
              + (IF k < numRequests % Len(urls) THEN 1 ELSE 0)

\* C5 witness: a finished load test over two targets, each requested once.
C5_Witness ==
    /\ LoadTestDone
    /\ Len(urls) = 2
    /\ hist[0].url = urls[1]
    /\ hist[1].url = urls[2]

\* C6: the effective concurrency is min(C, N): main sets it so, runLoadTest
\* starts exactly that many workers, at no time are more requests in flight,
\* and the load test still ends with N results. (On the sequential path the
\* main goroutine is the one worker and no goroutine is started.)
C6_Concurrency ==
    /\ [][(pc = "main" /\ pc' # "exit1") =>
            /\ numRequests' = EffectiveN
            /\ concurrency' = Min(EffectiveC, EffectiveN)]_vars
    /\ [](/\ started <= concurrency
          /\ concurrency <= numRequests
          /\ (pc \in {"feed", "wait", "closeResults", "collect"} \/ LoadTestDone)
                => started = concurrency
          /\ SequentialDone => (started = 0 /\ concurrency = 1)
          /\ Cardinality({w \in Workers : wpc[w] # "idle"}) = started
          /\ InFlight <= concurrency
          /\ LoadTestDone => successCount + failureCount = numRequests)

\* C6 witness: more workers were asked for than there are jobs, N workers
\* were started and all N have a request in flight.
C6_Witness ==
    /\ concurrencyFlag > numRequests
    /\ numRequests >= 2
    /\ started = numRequests
    /\ InFlight = numRequests

SequentialPath == numRequests <= SeqMaxRequests /\ concurrency = 1

C9_TargetListNonEmpty ==
    /\ pc \notin {"main", "exit1"} => Len(urls) >= 1
    /\ pc # "panic"

\* C10: when runLoadTest is over, successCount is the number of responses
\* read to the end with a status in [200,300); each response read to the end
\* with another status is one failure (next to one per connection error and
\* per body-read error), and the TTFB and TTLB of every response read to the
\* end, whatever its status, are among the timing samples.
C10_SuccessCount ==
    LoadTestDone =>
        /\ successCount = ReceivedWhere(LAMBDA r : r.status >= 200 /\ r.status < 300)
        /\ failureCount = connErrs + bodyErrs
            + ReceivedWhere(LAMBDA r : r.status < 200 \/ r.status >= 300)
        /\ Len(ttfbDurations) = ReceivedWhere(LAMBDA r : TRUE)
        /\ Len(ttlbDurations) = Len(ttfbDurations)
        /\ \A f \in Durations, l \in Durations :
            Cardinality({p \in 1 .. Len(ttfbDurations) :
                            ttfbDurations[p] = f /\ ttlbDurations[p] = l})
            = ReceivedWhere(LAMBDA r : r.ttfb = f /\ r.ttlb = l)
        /\ report.successCount = successCount
        /\ report.failureCount = failureCount

\* C10 witness: a finished load test with a 200 and a 300 response, both
\* read to the end: one success, one failure, two samples of each timing.
C10_Witness ==
    /\ LoadTestDone
    /\ successCount = 1
    /\ failureCount = 1
    /\ connErrs + bodyErrs = 0
    /\ Len(ttfbDurations) = 2
    /\ Len(ttlbDurations) = 2

\* C11: the timing samples of runLoadTest are exactly the responses whose
\* body was read to the end: a connection error and a body-read error send
\* nil, add no TTFB and no TTLB sample (the TTFB measured before a body-read
\* error is dropped) and count once in failureCount.
C11_SamplesAreCompleteResponses ==
    /\ \A p \in 1 .. Len(results) :
        ~results[p].nil =>
            BagIn([status |-> results[p].statusCode,
                   ttfb |-> results[p].timeToFirstByte,
                   ttlb |-> results[p].timeToLastByte], received)
    /\ Cardinality({p \in 1 .. Len(results) : results[p].nil}) <= connErrs + bodyErrs
    /\ (InLoadTest \/ LoadTestDone) =>
        /\ Len(ttfbDurations) = Len(ttlbDurations)
        /\ Len(ttfbDurations)
            + Cardinality({p \in 1 .. Len(results) : ~results[p].nil})
            = BagCardinality(received)
    /\ LoadTestDone =>
        /\ Len(ttfbDurations) = numRequests - connErrs - bodyErrs
        /\ Len(ttlbDurations) = numRequests - connErrs - bodyErrs
        /\ report.ttfb.count = (IF Len(ttfbDurations) = 0 THEN 1 ELSE Len(ttfbDurations))
        /\ failureCount >= connErrs + bodyErrs
        /\ successCount + failureCount = numRequests
        /\ successCount <= Len(ttfbDurations)

\* C11 witness: a finished load test of two jobs, one ended by a body-read
\* error after its headers, the other read to the end: one sample of each
\* timing, and the body-read error is a failure.
C11_Witness ==
    /\ LoadTestDone
    /\ bodyErrs = 1
    /\ connErrs = 0
    /\ Len(ttfbDurations) = 1
    /\ Len(ttlbDurations) = 1
    /\ failureCount >= 1

\* C12: when every one of the N results is a failure without timing data,
\* the report has successCount 0, failureCount N, and min, max and mean 0
\* for TTFB and for TTLB (the total time is the TTLB), computed without a
\* division by zero.
C12_EmptyTimingSet ==
    (LoadTestDone /\ connErrs + bodyErrs = numRequests) =>
        /\ ttfbDurations = << >>
        /\ ttlbDurations = << >>
        /\ report.successCount = 0
        /\ report.failureCount = numRequests
        /\ report.ttfb.minUs = 0 /\ report.ttfb.maxUs = 0 /\ report.ttfb.meanUs = 0
        /\ report.ttlb.minUs = 0 /\ report.ttlb.maxUs = 0 /\ report.ttlb.meanUs = 0
        /\ report.ttfb.count # 0
        /\ report.ttlb.count # 0

\* C12 witness: a finished load test whose two requests both failed, one
\* before and one after the headers.
C12_Witness ==
    /\ LoadTestDone
    /\ numRequests = 2
    /\ connErrs = 1
    /\ bodyErrs = 1
    /\ report.failureCount = 2

\* C13: the target list is resolved by precedence, first match wins: with -f
\* the lines of the file in order (an error when the file cannot be read),
\* else with -u the one URL, else the first positional argument, else an
\* error; on a resolver error main ends in exit 1, and no request is made
\* before main has passed the resolution.
C13_ResolutionPrecedence ==
    /\ [][pc = "main" =>
            LET fromFile == fileFlag # ""
                fromFlag == fileFlag = "" /\ urlFlag # ""
                fromArg == fileFlag = "" /\ urlFlag = "" /\ args # << >>
                unreadable == fromFile /\ (file.openErr \/ file.scanErr)
                missing == ~fromFile /\ ~fromFlag /\ ~fromArg
            IN  /\ (unreadable \/ missing) => pc' = "exit1"
                /\ pc' # "exit1" =>
                    /\ fromFile => urls' = file.lines
                    /\ fromFlag => urls' = <<urlFlag>>
                    /\ fromArg => urls' = <<Head(args)>>]_vars
    /\ [](pc \in {"main", "exit1"} =>
            /\ TotalClaimed = 0 /\ InFlight = 0 /\ started = 0
            /\ output = << >> /\ connErrs = 0 /\ BagCardinality(received) = 0)
    /\ [][pc = "exit1" => pc' = "exit1"]_vars

\* C13 witness: -f names a file that cannot be opened while -u is given too
\* and -n, -c are valid: the file wins, the resolver fails and main has
\* ended in exit 1.
C13_Witness ==
    /\ pc = "exit1"
    /\ fileFlag # ""
    /\ file.openErr
    /\ urlFlag # ""
    /\ numReqsFlag >= 1
    /\ concurrencyFlag >= 1

\* C14: every response that delivered its headers has its body read to the
\* end and then closed before the goroutine that holds it starts its next
\* request: no body is closed unread in runSequential, and a worker that is
\* about to take or issue a request holds no response.
C14_BodiesDrained ==
    /\ unread = 0
    /\ \A w \in Workers : wpc[w] \in {"idle", "recv", "get", "return", "done"} => wresp[w] = NoResp

\* The worker half of C14 alone: a worker drains (or fails to read) and
\* closes the body it holds before its next receive from jobs.
C14_WorkerDrains ==
    \A w \in Workers : wpc[w] \in {"idle", "recv", "get", "return", "done"} => wresp[w] = NoResp

\* C15: for a non-empty sequence of durations the triple of analyzeDurations
\* satisfies min <= mean <= max. The mean is the fraction meanUs / count, so
\* the comparison is made after multiplying by count.
C15_MeanBetweenMinAndMax ==
    report.printed =>
        /\ ttfbDurations # << >> =>
            /\ report.ttfb.minUs * report.ttfb.count <= report.ttfb.meanUs
            /\ report.ttfb.meanUs <= report.ttfb.maxUs * report.ttfb.count
        /\ ttlbDurations # << >> =>
            /\ report.ttlb.minUs * report.ttlb.count <= report.ttlb.meanUs
            /\ report.ttlb.meanUs <= report.ttlb.maxUs * report.ttlb.count

\* The part of C15 that the code keeps: min and max are the smallest and the
\* largest sample in whole microseconds, and min <= max.
C15_MinAndMaxAreExtremes ==
    (report.printed /\ ttlbDurations # << >>) =>
        /\ report.ttlb.minUs <= report.ttlb.maxUs
        /\ \A p \in 1 .. Len(ttlbDurations) :
            /\ report.ttlb.minUs <= ttlbDurations[p] \div NanosPerMicro
            /\ report.ttlb.maxUs >= ttlbDurations[p] \div NanosPerMicro
        /\ \E p \in 1 .. Len(ttlbDurations) :
            report.ttlb.minUs = ttlbDurations[p] \div NanosPerMicro
        /\ \E p \in 1 .. Len(ttlbDurations) :
            report.ttlb.maxUs = ttlbDurations[p] \div NanosPerMicro

\* The summary as a function of the bag of outcomes alone: R is the bag of
\* the responses read to the end, e the number of requests that ended in an
\* error. No order of arrival, interleaving or worker count enters into it.
SummaryOfOutcomes(R, e) ==
    LET S == BagToSet(R)
        k == BagCardinality(R)
        least(T) == CHOOSE x \in T : \A y \in T : x <= y
        greatest(T) == CHOOSE x \in T : \A y \in T : x >= y
        stats(T, total) ==
            IF k = 0 THEN [minUs |-> 0, maxUs |-> 0, meanUs |-> 0, count |-> 1]
            ELSE [minUs |-> least(T) \div NanosPerMicro,
                  maxUs |-> greatest(T) \div NanosPerMicro,
                  meanUs |-> total \div NanosPerMicro,
                  count |-> k]
        ok == {r \in S : r.status >= StatusOkLow /\ r.status < StatusOkHigh}
    IN  [printed |-> TRUE,
         successCount |-> SumOver([r \in S |-> CopiesIn(r, R)], ok),
         failureCount |-> e + SumOver([r \in S |-> CopiesIn(r, R)], S \ ok),
         ttfb |-> stats({r.ttfb : r \in S},
                        SumOver([r \in S |-> r.ttfb * CopiesIn(r, R)], S)),
         ttlb |-> stats({r.ttlb : r \in S},
                        SumOver([r \in S |-> r.ttlb * CopiesIn(r, R)], S))]

\* C16: the summary of runLoadTest depends only on the multiset of the
\* outcomes of the N jobs: under every arrival order on the results channel,
\* every interleaving of the workers and every concurrency, it is the value
\* that SummaryOfOutcomes gives for the bag of outcomes.
C16_SummaryOrderFree ==
    LoadTestDone => report = SummaryOfOutcomes(received, connErrs + bodyErrs)

\* C16 witness: a finished load test with two workers whose results were
\* collected in decreasing order of the total time, the larger TTLB first.
C16_Witness ==
    /\ LoadTestDone
    /\ concurrency = 2
    /\ ttlbDurations = <<1500, 500>>
    /\ report.ttlb.minUs = 0
    /\ report.ttlb.maxUs = 1

\* ------------------------------------------------ the part_001 variant
\* What part_001 leaves alone: the part_000 state that it does not have.
unusedP1 == <<fileFlag, args, file, urls, numRequests, concurrency, jobs, jobsClosed,
              results, resultsClosed, started, wpc, wjob, wresp, ttfbDurations,
              ttlbDurations, output, hist, bodyErrs, received, unread>>

\* part_001 after flag.Parse: only -u, -n and -c exist.
InitP1 ==
    /\ urlFlag \in {"", "u"}
    /\ numReqsFlag \in NFlagValues
    /\ concurrencyFlag \in CFlagValues
    /\ fileFlag = ""
    /\ args = << >>
    /\ file = NoFile
    /\ pc = "main"
    /\ urls = << >>
    /\ numRequests = 0
    /\ concurrency = 0
    /\ i = 0
    /\ jobs = << >>
    /\ jobsClosed = FALSE
    /\ results = << >>
    /\ resultsClosed = FALSE
    /\ wg = 0
    /\ started = 0
    /\ wpc = [w \in Workers |-> "idle"]
    /\ wjob = [w \in Workers |-> NoJob]
    /\ wresp = [w \in Workers |-> NoResp]
    /\ successCount = 0
    /\ failureCount = 0
    /\ ttfbDurations = << >>
    /\ ttlbDurations = << >>
    /\ report = NoReport
    /\ output = << >>
    /\ hist = << >>
    /\ connErrs = 0
    /\ bodyErrs = 0
    /\ received = EmptyBag
    /\ unread = 0
    /\ InitVariant1

\* part_001 line 45: "seqReqs := *n - *c"; "for range seqReqs" runs no
\* iteration when it is zero or negative.
seqReqs == numReqsFlag - concurrencyFlag

\* An element of the metrics slice; "by" is history: 0 for the sequential
\* phase, else the goroutine that built it.
MetricsOf(g) == [by |-> g]

\* part_001 lines 26-43: an empty -u, n <= 0 or c <= 0 is exit 1; else the
\* sequential phase begins.
P1Main ==
    /\ pc = "main"
    /\ pc' = IF urlFlag = "" \/ numReqsFlag <= 0 \/ concurrencyFlag <= 0
             THEN "exit1" ELSE "p1seq"
    /\ UNCHANGED <<unusedP1, urlFlag, numReqsFlag, concurrencyFlag, i, wg, successCount,
                   failureCount, report, connErrs, variant1>>

\* part_001 lines 51-53: one more iteration of the sequential loop issues
\* its http.Get.
P1SeqIssue ==
    /\ pc = "p1seq"
    /\ i < seqReqs
    /\ issued' = issued + 1
    /\ pc' = "p1seqget"
    /\ UNCHANGED <<unusedP1, urlFlag, numReqsFlag, concurrencyFlag, i, wg, successCount,
                   failureCount, report, connErrs, metrics, gpc, gloc, responses>>

\* part_001 lines 56-59: http.Get failed in the sequential phase: the error
\* is printed and main returns; nothing more is issued or printed.
P1SeqGetErr ==
    /\ pc = "p1seqget"
    /\ connErrs' = connErrs + 1
    /\ pc' = "returned"
    /\ UNCHANGED <<unusedP1, urlFlag, numReqsFlag, concurrencyFlag, i, wg, successCount,
                   failureCount, report, variant1>>

\* part_001 lines 60-79: a response in the sequential phase: the body is
\* read, the Metrics appended and one of the counters incremented. No other
\* goroutine exists yet.
P1SeqGetOk ==
    /\ pc = "p1seqget"
    /\ \E status \in StatusCodes :
        IF status >= StatusOkLow /\ status < StatusOkHigh
        THEN successCount' = successCount + 1 /\ UNCHANGED failureCount
        ELSE failureCount' = failureCount + 1 /\ UNCHANGED successCount
    /\ responses' = responses + 1
    /\ metrics' = Append(metrics, MetricsOf(0))
    /\ i' = i + 1
    /\ pc' = "p1seq"
    /\ UNCHANGED <<unusedP1, urlFlag, numReqsFlag, concurrencyFlag, wg, report, connErrs,
                   gpc, gloc, issued>>

\* part_001 lines 80-84: the sequential loop is over; the concurrent phase
\* begins with i := 0.
P1SeqEnd ==
    /\ pc = "p1seq"
    /\ i >= seqReqs
    /\ i' = 0
    /\ pc' = "p1spawn"
    /\ UNCHANGED <<unusedP1, urlFlag, numReqsFlag, concurrencyFlag, wg, successCount,
                   failureCount, report, connErrs, variant1>>

\* part_001 lines 84-85: "for i := 0; i < *c; i++ { wg.Go(...) }": wg.Go
\* adds one to the WaitGroup and starts the goroutine.
P1Spawn ==
    /\ pc = "p1spawn"
    /\ i < concurrencyFlag
    /\ wg' = wg + 1
    /\ gpc' = [gpc EXCEPT ![i + 1] = "start"]
    /\ i' = i + 1
    /\ UNCHANGED <<unusedP1, urlFlag, numReqsFlag, concurrencyFlag, pc, successCount,
                   failureCount, report, connErrs, metrics, gloc, issued, responses>>

\* part_001 lines 84, 116: the spawn loop is over, main calls wg.Wait.
P1SpawnEnd ==
    /\ pc = "p1spawn"
    /\ i >= concurrencyFlag
    /\ pc' = "p1wait"
    /\ UNCHANGED <<unusedP1, urlFlag, numReqsFlag, concurrencyFlag, i, wg, successCount,
                   failureCount, report, connErrs, variant1>>

\* part_001 lines 116-133: wg.Wait returns when the counter is zero; the
\* statistics are computed over metrics and the summary is printed.
P1Wait ==
    /\ pc = "p1wait"
    /\ wg = 0
    /\ report' = [printed |-> TRUE,
                  successCount |-> successCount,
                  failureCount |-> failureCount,
                  count |-> Len(metrics)]
    /\ pc' = "done"
    /\ UNCHANGED <<unusedP1, urlFlag, numReqsFlag, concurrencyFlag, i, wg, successCount,
                   failureCount, connErrs, variant1>>

\* The process of part_001 is running its concurrent phase.
P1Running == pc \in {"p1spawn", "p1wait"}

\* part_001 lines 86-87: the goroutine issues its http.Get.
P1GoIssue(g) ==
    /\ P1Running
    /\ gpc[g] = "start"
    /\ gpc' = [gpc EXCEPT ![g] = "get"]
    /\ issued' = issued + 1
    /\ UNCHANGED <<unusedP1, urlFlag, numReqsFlag, concurrencyFlag, pc, i, wg, successCount,
                   failureCount, report, connErrs, metrics, gloc, responses>>

\* part_001 lines 91-94: http.Get failed in a goroutine: the error is
\* printed and the goroutine returns (wg.Go calls Done); neither counter is
\* touched.
P1GoGetErr(g) ==
    /\ P1Running
    /\ gpc[g] = "get"
    /\ gpc' = [gpc EXCEPT ![g] = "done"]
    /\ connErrs' = connErrs + 1
    /\ wg' = wg - 1
    /\ UNCHANGED <<unusedP1, urlFlag, numReqsFlag, concurrencyFlag, pc, i, successCount,
                   failureCount, report, metrics, gloc, issued, responses>>

\* part_001 lines 95-105: a response; the body is read and the Metrics
\* value is built.
P1GoGetOk(g) ==
    /\ P1Running
    /\ gpc[g] = "get"
    /\ \E status \in StatusCodes :
        gloc' = [gloc EXCEPT ![g].status = status]
    /\ gpc' = [gpc EXCEPT ![g] = "loadMetrics"]
    /\ responses' = responses + 1
    /\ UNCHANGED <<unusedP1, urlFlag, numReqsFlag, concurrencyFlag, pc, i, wg, successCount,
                   failureCount, report, connErrs, metrics, issued>>

\* part_001 line 107, first half of "metrics = append(metrics, m)": the
\* shared slice is read, without a lock.
P1GoLoadMetrics(g) ==
    /\ P1Running
    /\ gpc[g] = "loadMetrics"
    /\ gloc' = [gloc EXCEPT ![g].slice = metrics]
    /\ gpc' = [gpc EXCEPT ![g] = "storeMetrics"]
    /\ UNCHANGED <<unusedP1, urlFlag, numReqsFlag, concurrencyFlag, pc, i, wg, successCount,
                   failureCount, report, connErrs, metrics, issued, responses>>

\* part_001 line 107, second half: the slice that was read, with m after
\* it, is written back to the shared variable.
P1GoStoreMetrics(g) ==
    /\ P1Running
    /\ gpc[g] = "storeMetrics"
    /\ metrics' = Append(gloc[g].slice, MetricsOf(g))
    /\ gloc' = [gloc EXCEPT ![g].slice = << >>]
    /\ gpc' = [gpc EXCEPT ![g] = "loadCount"]
    /\ UNCHANGED <<unusedP1, urlFlag, numReqsFlag, concurrencyFlag, pc, i, wg, successCount,
                   failureCount, report, connErrs, issued, responses>>

\* part_001 lines 109-113, first half of "successCount++" or
\* "failureCount++": the shared counter is read, without a lock.
P1GoLoadCount(g) ==
    /\ P1Running
    /\ gpc[g] = "loadCount"
    /\ gloc' = [gloc EXCEPT ![g].count =
                    IF gloc[g].status >= StatusOkLow /\ gloc[g].status < StatusOkHigh
                    THEN successCount ELSE failureCount]
    /\ gpc' = [gpc EXCEPT ![g] = "storeCount"]
    /\ UNCHANGED <<unusedP1, urlFlag, numReqsFlag, concurrencyFlag, pc, i, wg, successCount,
                   failureCount, report, connErrs, metrics, issued, responses>>

\* part_001 lines 109-115, second half: the value that was read plus one is
\* written back; the goroutine returns, the body is closed and wg.Go calls
\* Done.
P1GoStoreCount(g) ==
    /\ P1Running
    /\ gpc[g] = "storeCount"
    /\ IF gloc[g].status >= StatusOkLow /\ gloc[g].status < StatusOkHigh
       THEN successCount' = gloc[g].count + 1 /\ UNCHANGED failureCount
       ELSE failureCount' = gloc[g].count + 1 /\ UNCHANGED successCount
    /\ gloc' = [gloc EXCEPT ![g] = NoLocal]
    /\ gpc' = [gpc EXCEPT ![g] = "done"]
    /\ wg' = wg - 1
    /\ UNCHANGED <<unusedP1, urlFlag, numReqsFlag, concurrencyFlag, pc, i, report, connErrs,
                   metrics, issued, responses>>

P1Goroutine(g) ==
    \/ P1GoIssue(g)
    \/ P1GoGetErr(g)
    \/ P1GoGetOk(g)
    \/ P1GoLoadMetrics(g)
    \/ P1GoStoreMetrics(g)
    \/ P1GoLoadCount(g)
    \/ P1GoStoreCount(g)

NextP1 ==
    \/ P1Main
    \/ P1SeqIssue
    \/ P1SeqGetErr
    \/ P1SeqGetOk
    \/ P1SeqEnd
    \/ P1Spawn
    \/ P1SpawnEnd
    \/ P1Wait
    \/ \E g \in Goroutines : P1Goroutine(g)

SpecP1 == InitP1 /\ [][NextP1]_vars

\* part_001 has ended: the summary is printed, or main returned early.
P1Done == pc = "done" /\ report.printed
P1Ended == pc \in {"done", "returned"}

\* C17: in part_001 no result is lost or duplicated: after wg.Wait, under
\* every interleaving of the goroutines, successCount + failureCount and
\* len(metrics) both equal the number of requests that received a response.
C17_NoLostResult ==
    P1Done =>
        /\ successCount + failureCount = responses
        /\ Len(metrics) = responses

\* C18: in part_001, for n >= 1 and c >= 1 and with no request failing, the
\* number of requests issued in both phases together is n.
C18_IssuesExactlyN ==
    (P1Done /\ connErrs = 0) => issued = numReqsFlag

\* C19: in part_001 a connection error on one request is recovered: it is
\* counted as one failure, the other requests are still issued and the
\* summary is printed with successCount + failureCount = n. Stated for
\* c <= n, where the run is meant to issue n requests.
C19_ConnectionErrorRecovered ==
    (P1Ended /\ connErrs = 1 /\ concurrencyFlag <= numReqsFlag) =>
        /\ report.printed
        /\ failureCount >= 1
        /\ issued = numReqsFlag
        /\ successCount + failureCount = numReqsFlag

\* ------------------------------------------------- termination of runLoadTest
\* main took the runLoadTest path (it was entered and has not returned, or
\* the process died inside it).
LoadTestPath == pc \notin {"main", "exit1"} /\ ~SequentialPath

\* A bound on the steps runLoadTest can still take: every job pays for its
\* way from the feed loop through jobs, a worker's Get and ReadAll and
\* results to the collector; every worker for its start, loop exit and
\* return; main for the statements after the feed loop.
StepsLeft ==
    (CASE pc \in {"spawn", "feed"} -> 4
       [] pc = "wait" -> 3
       [] pc = "closeResults" -> 2
       [] pc = "collect" -> 1
       [] OTHER -> 0)
    + 3 * (concurrency - started)
    + 5 * (numRequests - i)
    + 4 * Len(jobs)
    + SumOver([w \in Workers |->
                CASE wpc[w] = "recv" -> 2
                  [] wpc[w] = "get" -> 5
                  [] wpc[w] = "read" -> 4
                  [] wpc[w] = "return" -> 1
                  [] OTHER -> 0], Workers)
    + Len(results)

\* Neither channel operation of runLoadTest can block: the feeder finds room
\* in jobs, a worker that holds a job finds room in results (and results
\* open), although nothing reads results before wg.Wait has returned.
NoSendBlocks ==
    /\ (pc = "feed" /\ i < numRequests) => Len(jobs) < ChanCap
    /\ \A w \in Workers :
        wpc[w] \in {"get", "read"} => (Len(results) < ChanCap /\ ~resultsClosed)
    /\ pc \in {"spawn", "feed", "wait"} => ~resultsClosed

\* Every step of runLoadTest that does not end in a panic brings it closer
\* to its end.
EveryStepProgresses ==
    [][(InLoadTest /\ pc' # "panic") => (StepsLeft' < StepsLeft /\ StepsLeft' >= 0)]_vars

\* runLoadTest has returned with everything wound up: all workers gone,
\* both channels closed and empty, N results collected.
WoundUp ==
    /\ \A w \in Workers : wpc[w] \in {"idle", "done"}
    /\ wg = 0
    /\ jobsClosed /\ resultsClosed
    /\ jobs = << >> /\ results = << >>
    /\ successCount + failureCount = numRequests

\* C20: runLoadTest cannot deadlock and terminates: the feeder never blocks
\* on jobs and no worker blocks on results; in every state of runLoadTest
\* some goroutine can take a step, every step brings the end closer, and the
\* end is the return after wg.Wait and a collection of exactly N results.
C20_LoadTestTerminates ==
    /\ [](LoadTestPath => NoSendBlocks)
    /\ [](LoadTestPath => (LoadTestDone \/ ENABLED Next))
    /\ EveryStepProgresses
    /\ [](LoadTestDone => WoundUp)

\* C20 for a target list that is not empty, where the feed loop's index
\* urls[i%len(urls)] is defined.
C20_TerminatesOnTargets ==
    /\ [](LoadTestPath => NoSendBlocks)
    /\ []((LoadTestPath /\ urls # << >>) => (LoadTestDone \/ ENABLED Next))
    /\ [](urls # << >> => pc # "panic")
    /\ EveryStepProgresses
    /\ [](LoadTestDone => WoundUp)
====
